---- MODULE Spec2Model ----
(***************************************************************************)
(* Model of the Snowflake table-to-CSV exporter.                           *)
(*                                                                         *)
(*   src/app.py                                   the Streamlit exporter   *)
(*   src/snowflake_table_to_csv_data_exporter.py  the command-line script  *)
(*                                                                         *)
(* A date (datetime.date, or a datetime at midnight, which is all the code *)
(* ever builds) is the tuple <<year, month, day>>.  Date arithmetic goes   *)
(* through the proleptic Gregorian ordinal, as datetime does.              *)
(***************************************************************************)
EXTENDS Integers, Sequences, FiniteSets, TLC

VARIABLES
    program,        \* "app" (src/app.py) or "cli" (the command-line script)
    START_DATE,     \* configured start date
    END_DATE,       \* configured end date (inclusive, as supplied)
    GROUP_BY,       \* "None", "Day", "Month" or "Year"
    pc,             \* position of the main thread ("unwinding": an exception
                    \* is on its way to the finally block)
    conn,           \* the connection: "none", "open" or "closed"
    closeCount,     \* number of calls of connection.close()
    date_ranges,    \* the planned (start, end) sub-ranges, in submission order
    failing,        \* indices of the sub-ranges whose query the warehouse fails
    unit,           \* per sub-range: position of its fetch_and_write_data call
    execCount,      \* per sub-range: number of cur.execute(query) calls
    result,         \* per sub-range: what its fetch_and_write_data call returned
    collected,      \* indices of the futures the as_completed loop has consumed
    progress,       \* the values (i + 1) passed to progress_bar.progress, in order
    memory_files,   \* the (file_name, csv_content) pairs held, in completion
                    \* order: the list of parallel_fetch while it runs, the
                    \* handler's memory_files otherwise
    archive,        \* whether a ZIP was built, and the entries written to it
    raised          \* the run ended by an exception that left the script

vars == <<program, START_DATE, END_DATE, GROUP_BY, pc, conn, closeCount,
          date_ranges, failing, unit, execCount, result, collected, progress,
          memory_files, archive, raised>>

\* Python's None.
NoneValue == "NoneValue"

----------------------------------------------------------------------------
(* datetime: the calendar arithmetic behind timedelta, replace and strftime *)

\* max_workers of the ThreadPoolExecutor.
MaxWorkers == 4

IsLeap(y) == (y % 4 = 0) /\ ((y % 100 # 0) \/ (y % 400 = 0))

\* Days in each month and days before each month of a non-leap year.
DAYS_IN_MONTH == <<31, 28, 31, 30, 31, 30, 31, 31, 30, 31, 30, 31>>
DAYS_BEFORE_MONTH == <<0, 31, 59, 90, 120, 151, 181, 212, 243, 273, 304, 334>>

DaysInMonth(y, m) == IF m = 2 /\ IsLeap(y) THEN 29 ELSE DAYS_IN_MONTH[m]

\* Days before January 1st of year y.
DaysBeforeYear(y) ==
    (y - 1) * 365 + ((y - 1) \div 4) - ((y - 1) \div 100) + ((y - 1) \div 400)

\* Days of year y before the first day of month m.
DaysBeforeMonth(y, m) ==
    DAYS_BEFORE_MONTH[m] + (IF m > 2 /\ IsLeap(y) THEN 1 ELSE 0)

\* date.toordinal()
ToOrdinal(d) == DaysBeforeYear(d[1]) + DaysBeforeMonth(d[1], d[2]) + d[3]

\* The month and day of the n-th day (from 0) of year y: the month is
\* estimated as (n + 50) >> 5 and corrected when the estimate is too high.
MonthOf(y, n) ==
    LET est == (n + 50) \div 32
        m   == IF DaysBeforeMonth(y, est) > n THEN est - 1 ELSE est
    IN  <<y, m, n - DaysBeforeMonth(y, m) + 1>>

\* date.fromordinal(n): the 400/100/4/1-year cycles of the calendar.
FromOrdinal(n) ==
    LET n0   == n - 1
        n400 == n0 \div 146097
        r400 == n0 % 146097
        n100 == r400 \div 36524
        r100 == r400 % 36524
        n4   == r100 \div 1461
        r4   == r100 % 1461
        n1   == r4 \div 365
        r1   == r4 % 365
        year == n400 * 400 + 1 + n100 * 100 + n4 * 4 + n1
    IN  IF n1 = 4 \/ n100 = 4 THEN <<year - 1, 12, 31>>
        ELSE MonthOf(year, r1)

\* d + timedelta(days=k)
AddDays(d, k) == FromOrdinal(ToOrdinal(d) + k)

\* Comparison of two dates (d1 < d2, d1 <= d2).
Before(d1, d2) == ToOrdinal(d1) < ToOrdinal(d2)
NotAfter(d1, d2) == ToOrdinal(d1) <= ToOrdinal(d2)

----------------------------------------------------------------------------
(* The interval planning                                                   *)

\* Variant of NextMonthStart: the step back to the first of the month is left out.
NextMonthStartNoRewind(current) == AddDays(<<current[1], current[2], 28>>, 4)

\* get_next_time_interval(current, group_by); None for any other group_by.
NextMonthStart(current) ==
    LET next_month == AddDays(<<current[1], current[2], 28>>, 4)
    IN  AddDays(next_month, 0 - (next_month[3] - 1))

get_next_time_interval(current, group_by) ==
    CASE group_by = "Day"   -> AddDays(current, 1)
      [] group_by = "Month" -> NextMonthStart(current)
      [] group_by = "Year"  -> <<current[1] + 1, 1, 1>>
      [] OTHER              -> NoneValue

\* Variant of PlanLoop: "if next_date > end_date: next_date = end_date" is left out.
RECURSIVE PlanLoopNoClip(_, _, _, _)
PlanLoopNoClip(current_date, end_date, group_by, acc) ==
    IF Before(current_date, end_date)
    THEN LET next_date == get_next_time_interval(current_date, group_by)
         IN  PlanLoopNoClip(next_date, end_date, group_by,
                            Append(acc, <<current_date, next_date>>))
    ELSE acc

\* The while loop that fills date_ranges.
RECURSIVE PlanLoop(_, _, _, _)
PlanLoop(current_date, end_date, group_by, acc) ==
    IF Before(current_date, end_date)
    THEN LET stepped   == get_next_time_interval(current_date, group_by)
             next_date == IF Before(end_date, stepped) THEN end_date ELSE stepped
         IN  PlanLoop(next_date, end_date, group_by,
                      Append(acc, <<current_date, next_date>>))
    ELSE acc

\* The sub-ranges the Export Data handler builds: the single (start, end + 1
\* day) range of granularity None, the loop's ranges otherwise.
DateRanges(start, end, group_by) ==
    IF group_by = "None"
    THEN << <<start, AddDays(end, 1)>> >>
    ELSE PlanLoop(start, AddDays(end, 1), group_by, <<>>)

\* The day loop of the command-line script: one (day, next day) per day,
\* while current_date <= END_DATE.
RECURSIVE CliLoop(_, _, _)
CliLoop(current_date, end, acc) ==
    IF NotAfter(current_date, end)
    THEN LET next_day == AddDays(current_date, 1)
         IN  CliLoop(next_day, end, Append(acc, <<current_date, next_day>>))
    ELSE acc

CliRanges(start, end) == CliLoop(start, end, <<>>)

----------------------------------------------------------------------------
(* Naming, query results and CSV content                                   *)

\* The "Filename Prefix" field (its default).
FILENAME_PREFIX == "exported_data"

\* FILENAME_PREFIX of the command-line script.
CLI_PREFIX == "orders"

\* strftime's zero-padded fields: %Y (years 1000..9999) and %m, %d.
Pad2(n) == IF n < 10 THEN "0" \o ToString(n) ELSE ToString(n)
Pad4(n) == ToString(n)

\* Variant of FormattedDate: the day is missing from the Day format.
FormattedDateNoDay(start, group_by) ==
    IF group_by \in {"Day", "Month"}
    THEN Pad4(start[1]) \o "_" \o Pad2(start[2])
    ELSE Pad4(start[1])

\* formatted_date of parallel_fetch: %Y_%m_%d for Day, %Y_%m for Month and
\* %Y for anything else.
FormattedDate(start, group_by) ==
    IF group_by = "Day"
    THEN Pad4(start[1]) \o "_" \o Pad2(start[2]) \o "_" \o Pad2(start[3])
    ELSE IF group_by = "Month"
         THEN Pad4(start[1]) \o "_" \o Pad2(start[2])
         ELSE Pad4(start[1])

\* file_name of parallel_fetch.
FileName(start, group_by) ==
    FILENAME_PREFIX \o "_" \o FormattedDate(start, group_by) \o ".csv"

\* file_name of the None branch of the handler.
FullFileName == FILENAME_PREFIX \o "_full.csv"

\* The file name of the command-line script: prefix_%m_%d_%Y.csv.
CliFileName(start) ==
    CLI_PREFIX \o "_" \o Pad2(start[2]) \o "_" \o Pad2(start[3]) \o "_"
        \o Pad4(start[1]) \o ".csv"

\* The rows the warehouse holds for start <= date < end: the table of the
\* model has one row per day, the row being its date.
Rows(start, end) ==
    [k \in 1..(ToOrdinal(end) - ToOrdinal(start)) |-> AddDays(start, k - 1)]

\* csv_content: the header row followed by the data rows.
CsvContent(rows) == <<"header">> \o rows

\* What fetch_and_write_data returns: (csv_content, formatted_query), or
\* (None, None) from its except branch.
NoneResult == [isNone |-> TRUE, csv |-> <<>>, query |-> <<>>]
FetchResult(start, end) ==
    [isNone |-> FALSE, csv |-> CsvContent(Rows(start, end)), query |-> <<start, end>>]

\* Python's truth value of csv_content ("if csv_content:").
Truthy(r) == ~r.isNone /\ r.csv # <<>>

\* No ZIP has been built.
NoArchive == [built |-> FALSE, entries |-> <<>>]

----------------------------------------------------------------------------
(* Inputs                                                                  *)

Granularities == {"None", "Day", "Month", "Year"}

\* Start date of the runs: the window crosses a month end and a year end.
RunStart == <<2023, 12, 30>>
\* The end date of a run is RunStart - MaxBack .. RunStart + MaxRunSpan.
MaxBack == 2
MaxRunSpan == 4

Units == 1..Len(date_ranges)
Running == {i \in Units : unit[i] = "executing"}
Queued == {i \in Units : unit[i] = "queued"}
Done == {i \in Units : unit[i] = "done"}

Init ==
    /\ program \in {"app", "cli"}
    /\ START_DATE = RunStart
    /\ END_DATE \in {AddDays(RunStart, k) : k \in (0 - MaxBack)..MaxRunSpan}
    /\ GROUP_BY \in (IF program = "app" THEN Granularities ELSE {"Day"})
    /\ pc = "idle"
    /\ conn = "none"
    /\ closeCount = 0
    /\ date_ranges = <<>>
    /\ failing = {}
    /\ unit = <<>>
    /\ execCount = <<>>
    /\ result = <<>>
    /\ collected = {}
    /\ progress = <<>>
    /\ memory_files = <<>>
    /\ archive = NoArchive
    /\ raised = FALSE

----------------------------------------------------------------------------
(* src/app.py: the Export Data handler                                     *)

\* The units of the planned sub-ranges, none of them entered yet.
Submit(ranges, f) ==
    /\ date_ranges' = ranges
    /\ failing' = f
    /\ unit' = [i \in 1..Len(ranges) |-> "queued"]
    /\ execCount' = [i \in 1..Len(ranges) |-> 0]
    /\ result' = [i \in 1..Len(ranges) |-> NoneResult]

\* What the handler does before its try block: the required-field check and
\* create_snowflake_connection.
\*   "missing"      a required field is empty: st.error, nothing else;
\*   "raises"       a Streamlit call made before connect() raises;
\*   "refused"      connect() raises: st.error, None is returned;
\*   "lost"         connect() returned and st.success raises an Exception
\*                  inside the same try: st.error, None is returned and the
\*                  handler does nothing more, the connection stays open;
\*   "lost_raising" as "lost", the exception being no Exception subclass (or
\*                  st.error raising too): it leaves the script;
\*   "connected"    the connection is returned.
Outcomes == {"missing", "raises", "refused", "lost", "lost_raising", "connected"}

\* The handler up to the submission of the units: the steps above, the
\* planning of date_ranges and the call of fetch_and_write_data (None) or of
\* parallel_fetch.  f: the sub-ranges whose query fails.
ExportData ==
    /\ program = "app"
    /\ pc = "idle"
    /\ \E outcome \in Outcomes :
        IF outcome # "connected"
        THEN /\ pc' = "end"
             /\ conn' = IF outcome \in {"lost", "lost_raising"} THEN "open" ELSE conn
             /\ raised' = (outcome \in {"raises", "lost_raising"})
             /\ UNCHANGED <<date_ranges, failing, unit, execCount, result>>
        ELSE /\ conn' = "open"
             /\ LET ranges == DateRanges(START_DATE, END_DATE, GROUP_BY)
                IN  \E f \in SUBSET (1..Len(ranges)) :
                        /\ Submit(ranges, f)
                        /\ pc' = IF GROUP_BY = "None" THEN "full" ELSE "collecting"
             /\ UNCHANGED raised
    /\ UNCHANGED <<program, START_DATE, END_DATE, GROUP_BY, closeCount, collected,
                   progress, memory_files, archive>>

\* snowflake_connection.close() in a finally block.
Closing ==
    /\ conn' = "closed"
    /\ closeCount' = closeCount + 1

\* st.progress(0) or st.empty() raises at the start of parallel_fetch, before
\* the pool exists: no unit is submitted, the exception leaves the try block
\* and the finally block closes the connection.  (Until a unit is entered,
\* the state after the submission is the state before it.)
SetupRaises ==
    /\ program = "app"
    /\ pc = "collecting"
    /\ Queued = Units
    /\ Closing
    /\ raised' = TRUE
    /\ pc' = "end"
    /\ UNCHANGED <<program, START_DATE, END_DATE, GROUP_BY, date_ranges, failing,
                   unit, execCount, result, collected, progress, memory_files,
                   archive>>

\* Variant of HasWorker: the pool has no limit.
HasWorkerUnbounded(i) == TRUE

\* Unit i is in the hands of a pool worker.  The pool hands the units out in
\* submission order, so every unit submitted before i has a worker too: the
\* ones inside a query and the ones not there yet (still running strftime,
\* sqlparse.format, connection.cursor() or st.spinner) each hold one of the
\* max_workers threads.
HasWorker(i) ==
    Cardinality(Running) + Cardinality({j \in Queued : j <= i}) <= MaxWorkers

\* Variant of Fails: a failing unit also cancels the units still queued.
FailsCancelling(i) ==
    /\ unit' = [j \in Units |-> IF j = i \/ unit[j] = "queued" THEN "done" ELSE unit[j]]
    /\ result' = [result EXCEPT ![i] = NoneResult]

\* The except branch of fetch_and_write_data: the unit returns (None, None).
Fails(i) ==
    /\ unit' = [unit EXCEPT ![i] = "done"]
    /\ result' = [result EXCEPT ![i] = NoneResult]

\* fetch_and_write_data is entered for unit i: connection.cursor() raises, or
\* cur.execute(query) is called.
EnterFetch(i) ==
    \/ /\ i \in failing
       /\ Fails(i)
       /\ UNCHANGED execCount
    \/ /\ unit' = [unit EXCEPT ![i] = "executing"]
       /\ execCount' = [execCount EXCEPT ![i] = @ + 1]
       /\ UNCHANGED result

\* A pool worker running fetch_wrapper for unit i gets to connection.cursor()
\* and cur.execute(query); a worker that took a later unit may get there
\* before one that took an earlier unit.
StartUnit(i) ==
    /\ program = "app"
    /\ pc \in {"collecting", "exiting"}
    /\ i \in Queued
    /\ HasWorker(i)
    /\ EnterFetch(i)
    /\ UNCHANGED <<program, START_DATE, END_DATE, GROUP_BY, pc, conn, closeCount,
                   date_ranges, failing, collected, progress, memory_files,
                   archive, raised>>

\* The None branch calls fetch_and_write_data itself.
FetchFull ==
    /\ pc = "full"
    /\ unit[1] = "queued"
    /\ EnterFetch(1)
    /\ UNCHANGED <<program, START_DATE, END_DATE, GROUP_BY, pc, conn, closeCount,
                   date_ranges, failing, collected, progress, memory_files,
                   archive, raised>>

\* cur.execute(query) and cur.fetchall() return and the CSV is written to the
\* StringIO and returned, or one of them raises.
FinishFetch(i) ==
    /\ program = "app"
    /\ i \in Units
    /\ unit[i] = "executing"
    /\ IF i \in failing
       THEN Fails(i)
       ELSE /\ unit' = [unit EXCEPT ![i] = "done"]
            /\ result' = [result EXCEPT
                    ![i] = FetchResult(date_ranges[i][1], date_ranges[i][2])]
    /\ UNCHANGED <<program, START_DATE, END_DATE, GROUP_BY, pc, conn, closeCount,
                   date_ranges, failing, execCount, collected, progress,
                   memory_files, archive, raised>>

\* The None branch after its inline fetch_and_write_data call returned.
CollectFull ==
    /\ pc = "full"
    /\ unit[1] = "done"
    /\ memory_files' = IF Truthy(result[1])
                       THEN Append(memory_files, <<FullFileName, result[1].csv>>)
                       ELSE memory_files
    /\ collected' = {1}
    /\ pc' = "bundle"
    /\ UNCHANGED <<program, START_DATE, END_DATE, GROUP_BY, conn, closeCount,
                   date_ranges, failing, unit, execCount, result, progress,
                   archive, raised>>

\* The None branch raises after its fetch_and_write_data call: st.error of
\* the except branch, or st.code or st.success after the file was appended.
FullRaises ==
    /\ pc = "full"
    /\ unit[1] = "done"
    /\ memory_files' = IF Truthy(result[1])
                       THEN Append(memory_files, <<FullFileName, result[1].csv>>)
                       ELSE memory_files
    /\ collected' = {1}
    /\ pc' = "unwinding"
    /\ UNCHANGED <<program, START_DATE, END_DATE, GROUP_BY, conn, closeCount,
                   date_ranges, failing, unit, execCount, result, progress,
                   archive, raised>>

\* The files parallel_fetch holds after consuming the future of unit i.
Collected(i) ==
    IF Truthy(result[i])
    THEN Append(memory_files,
                <<FileName(date_ranges[i][1], GROUP_BY), result[i].csv>>)
    ELSE memory_files

\* Variant of Reported: the progress call sits inside "if csv_content:".
ReportedOnSuccess(i) ==
    IF Truthy(result[i])
    THEN Append(progress, <<Cardinality(collected) + 1, Len(date_ranges)>>)
    ELSE progress

\* The progress reports after the loop iteration that consumed unit i:
\* progress_bar.progress((i + 1) / total), i the enumerate index.
Reported(i) == Append(progress, <<Cardinality(collected) + 1, Len(date_ranges)>>)

\* One iteration of the as_completed loop: a finished future is consumed.
Collect(i) ==
    /\ pc = "collecting"
    /\ i \in Done \ collected
    /\ memory_files' = Collected(i)
    /\ progress' = Reported(i)
    /\ collected' = collected \cup {i}
    /\ UNCHANGED <<program, START_DATE, END_DATE, GROUP_BY, pc, conn, closeCount,
                   date_ranges, failing, unit, execCount, result, archive, raised>>

\* An exception leaves the as_completed loop in the iteration of unit i:
\* future.result() has consumed the future and, for a unit that returned
\* content, the file is appended; then progress_text.text or st.code (both
\* under "if csv_content:") or progress_bar.progress raises, before the
\* report is made.
CollectRaises(i) ==
    /\ pc = "collecting"
    /\ i \in Done \ collected
    /\ memory_files' = Collected(i)
    /\ collected' = collected \cup {i}
    /\ pc' = "exiting"
    /\ UNCHANGED <<program, START_DATE, END_DATE, GROUP_BY, conn, closeCount,
                   date_ranges, failing, unit, execCount, result, progress,
                   archive, raised>>

\* The units the executor's shutdown(wait=True) still waits for.
Outstanding == Units \ Done

\* The with block of the executor is left, __exit__ having waited for every
\* submitted unit.  The loop ended: parallel_fetch returns its list, which
\* the handler assigns to memory_files.  An exception propagates: the list of
\* parallel_fetch is lost and the handler's memory_files is still [].
ExitPool ==
    /\ \/ pc = "collecting" /\ collected = Units
       \/ pc = "exiting"
    /\ Outstanding = {}
    /\ pc' = IF pc = "exiting" THEN "unwinding" ELSE "bundle"
    /\ memory_files' = IF pc = "exiting" THEN <<>> ELSE memory_files
    /\ UNCHANGED <<program, START_DATE, END_DATE, GROUP_BY, conn, closeCount,
                   date_ranges, failing, unit, execCount, result, collected,
                   progress, archive, raised>>

\* Variant of Bundle: the "if memory_files:" test is left out.
BundleAlways(files) == [built |-> TRUE, entries |-> files]

\* The ZIP built from files ("if memory_files:").
Bundle(files) ==
    IF files # <<>> THEN [built |-> TRUE, entries |-> files] ELSE NoArchive

\* The ZIP bundling step of the handler; building the ZIP may raise.
BundleZip ==
    /\ pc = "bundle"
    /\ \/ archive' = Bundle(memory_files) /\ pc' = "finally"
       \/ memory_files # <<>> /\ pc' = "unwinding" /\ UNCHANGED archive
    /\ UNCHANGED <<program, START_DATE, END_DATE, GROUP_BY, conn, closeCount,
                   date_ranges, failing, unit, execCount, result, collected,
                   progress, memory_files, raised>>

\* The finally block is reached: the try block ended or an exception left it.
CloseWhen == pc \in {"finally", "unwinding"}

\* The finally block: "if snowflake_connection: snowflake_connection.close()"
\* and the message "Connection closed"; the run ends, by the exception that
\* left the try block or by one of st.info.
Close ==
    /\ CloseWhen
    /\ conn = "open"
    /\ Closing
    /\ \E info \in BOOLEAN :
        raised' = (pc = "unwinding" \/ (info /\ program = "app"))
    /\ pc' = "end"
    /\ UNCHANGED <<program, START_DATE, END_DATE, GROUP_BY, date_ranges, failing,
                   unit, execCount, result, collected, progress, memory_files,
                   archive>>

----------------------------------------------------------------------------
(* src/snowflake_table_to_csv_data_exporter.py: the main execution block   *)

\* create_snowflake_connection, USE WAREHOUSE and the clearing of the csv
\* directory.  connected: connect() succeeded (else RuntimeError leaves the
\* script); setup: the statements before the day loop did not raise.
CliStart ==
    /\ program = "cli"
    /\ pc = "idle"
    /\ \E connected \in BOOLEAN, setup \in BOOLEAN :
        IF ~connected
        THEN /\ raised' = TRUE
             /\ pc' = "end"
             /\ UNCHANGED <<conn, date_ranges, failing, unit, execCount, result>>
        ELSE /\ conn' = "open"
             /\ UNCHANGED raised
             /\ IF ~setup
                THEN /\ pc' = "unwinding"
                     /\ UNCHANGED <<date_ranges, failing, unit, execCount, result>>
                ELSE /\ LET ranges == CliRanges(START_DATE, END_DATE)
                        IN  \E f \in SUBSET (1..Len(ranges)) :
                                Submit(ranges, f)
                     /\ pc' = "loop"
    /\ UNCHANGED <<program, START_DATE, END_DATE, GROUP_BY, closeCount, collected,
                   progress, memory_files, archive>>

\* The day loop: the next day's fetch_and_write_data call is entered, or the
\* loop ends.  When connection.cursor() raises, a snowflake.connector.Error
\* is caught and logged and the loop goes on; any other error leaves the
\* loop.
CliNextDay ==
    /\ pc = "loop"
    /\ Running = {}
    /\ IF Queued = {}
       THEN /\ pc' = "finally"
            /\ UNCHANGED <<unit, execCount, result>>
       ELSE LET i == CHOOSE k \in Queued : \A j \in Queued : k <= j
            IN  \/ EnterFetch(i) /\ UNCHANGED pc
                \/ /\ i \in failing
                   /\ Fails(i)
                   /\ pc' = "unwinding"
                   /\ UNCHANGED execCount
    /\ UNCHANGED <<program, START_DATE, END_DATE, GROUP_BY, conn, closeCount,
                   date_ranges, failing, collected, progress, memory_files,
                   archive, raised>>

\* What a write that fails leaves in the file: the part of content written
\* before the error.
Partial(content) == {SubSeq(content, 1, n) : n \in 0..(Len(content) - 1)}

\* The query returns and the rows are written to csv/<prefix>_<date>.csv.
\* A snowflake.connector.Error (the query failing) is caught and logged.  Any
\* other error is not caught and leaves the loop: open() failing leaves no
\* file, a write failing after open() leaves the file with what was written.
CliFinishFetch(i) ==
    /\ program = "cli"
    /\ i \in Units
    /\ unit[i] = "executing"
    /\ IF i \in failing
       THEN /\ Fails(i)
            /\ \/ UNCHANGED <<pc, memory_files>>
               \/ pc' = "unwinding" /\ UNCHANGED memory_files
               \/ /\ pc' = "unwinding"
                  /\ \E part \in Partial(CsvContent(Rows(date_ranges[i][1],
                                                         date_ranges[i][2]))) :
                        memory_files' = Append(memory_files,
                            <<CliFileName(date_ranges[i][1]), part>>)
       ELSE /\ unit' = [unit EXCEPT ![i] = "done"]
            /\ result' = [result EXCEPT
                    ![i] = FetchResult(date_ranges[i][1], date_ranges[i][2])]
            /\ memory_files' = Append(memory_files,
                    <<CliFileName(date_ranges[i][1]),
                      CsvContent(Rows(date_ranges[i][1], date_ranges[i][2]))>>)
            /\ UNCHANGED pc
    /\ UNCHANGED <<program, START_DATE, END_DATE, GROUP_BY, conn, closeCount,
                   date_ranges, failing, execCount, collected, progress, archive,
                   raised>>

----------------------------------------------------------------------------
(* The specification of a run                                              *)

Next ==
    \/ ExportData
    \/ SetupRaises
    \/ \E i \in Units : StartUnit(i)
    \/ FetchFull
    \/ \E i \in Units : FinishFetch(i)
    \/ CollectFull
    \/ FullRaises
    \/ \E i \in Units : Collect(i)
    \/ \E i \in Units : CollectRaises(i)
    \/ ExitPool
    \/ BundleZip
    \/ Close
    \/ CliStart
    \/ CliNextDay
    \/ \E i \in Units : CliFinishFetch(i)

Spec == Init /\ [][Next]_vars

----------------------------------------------------------------------------
(* The specification of the planning alone, over a wide range of dates     *)

\* The start date is PlanBase + 0..MaxPlanStart days, the end date is the
\* start date + (-MaxBack..MaxPlanSpan) days, or, for the granularities
\* Month and Year, LongSpan days later: the ranges cross the 29-day February
\* of 2024, the 28-day February of 2025, three year ends and all of 2024.
PlanBase == <<2023, 12, 18>>
MaxPlanStart == 16
MaxPlanSpan == 75
LongSpan == 366

InitPlan ==
    /\ program \in {"app", "cli"}
    /\ GROUP_BY \in (IF program = "app" THEN Granularities ELSE {"Day"})
    /\ \E s \in 0..MaxPlanStart, a \in (0 - MaxBack)..MaxPlanSpan,
          long \in (IF GROUP_BY \in {"Month", "Year"} THEN BOOLEAN ELSE {FALSE}) :
        /\ START_DATE = AddDays(PlanBase, s)
        /\ END_DATE = AddDays(PlanBase, s + a + (IF long THEN LongSpan ELSE 0))
    /\ pc = "idle"
    /\ conn = "none"
    /\ closeCount = 0
    /\ date_ranges = <<>>
    /\ failing = {}
    /\ unit = <<>>
    /\ execCount = <<>>
    /\ result = <<>>
    /\ collected = {}
    /\ progress = <<>>
    /\ memory_files = <<>>
    /\ archive = NoArchive
    /\ raised = FALSE

\* The handler plans its sub-ranges.
PlanApp ==
    /\ program = "app"
    /\ pc = "idle"
    /\ date_ranges' = DateRanges(START_DATE, END_DATE, GROUP_BY)
    /\ pc' = "planned"
    /\ UNCHANGED <<program, START_DATE, END_DATE, GROUP_BY, conn, closeCount,
                   failing, unit, execCount, result, collected, progress,
                   memory_files, archive, raised>>

\* The command-line script walks its day loop.
PlanCli ==
    /\ program = "cli"
    /\ pc = "idle"
    /\ date_ranges' = CliRanges(START_DATE, END_DATE)
    /\ pc' = "planned"
    /\ UNCHANGED <<program, START_DATE, END_DATE, GROUP_BY, conn, closeCount,
                   failing, unit, execCount, result, collected, progress,
                   memory_files, archive, raised>>

NextPlan == PlanApp \/ PlanCli

PlanSpec == InitPlan /\ [][NextPlan]_vars

----------------------------------------------------------------------------
(* Properties of the planning                                              *)

\* The request is consistent (start <= end) and its sub-ranges are planned.
Planned == pc = "planned" /\ NotAfter(START_DATE, END_DATE)

\* The exclusive end of the request: the day after END_DATE.
EndExclusive == ToOrdinal(END_DATE) + 1

\* C1: for start <= end and every granularity, the planned sub-ranges (of the
\* handler and of the day loop of the command-line script) each have
\* start < end, each ends where the next starts, the first starts at the
\* start date and the last ends at end date + 1 day.
C1_RangesTile ==
    Planned =>
        LET n == Len(date_ranges)
        IN  /\ n >= 1
            /\ \A k \in 1..n : Before(date_ranges[k][1], date_ranges[k][2])
            /\ \A k \in 1..(n - 1) : date_ranges[k][2] = date_ranges[k + 1][1]
            /\ date_ranges[1][1] = START_DATE
            /\ ToOrdinal(date_ranges[n][2]) = EndExclusive

\* A month plan whose first and last sub-ranges are clipped.
C1_Witness ==
    /\ Planned
    /\ program = "app"
    /\ GROUP_BY = "Month"
    /\ Len(date_ranges) >= 3
    /\ START_DATE[3] # 1
    /\ date_ranges[Len(date_ranges)][2][3] # 1

\* The calendar day, month or year of a date, its first day and the first
\* day of the one after it.
UnitOf(d, g) ==
    CASE g = "Day" -> d [] g = "Month" -> <<d[1], d[2]>> [] g = "Year" -> <<d[1]>>
UnitFirst(d, g) ==
    CASE g = "Day" -> d [] g = "Month" -> <<d[1], d[2], 1>> [] g = "Year" -> <<d[1], 1, 1>>
UnitAfter(d, g) ==
    CASE g = "Day"   -> FromOrdinal(ToOrdinal(d) + 1)
      [] g = "Month" -> IF d[2] = 12 THEN <<d[1] + 1, 1, 1>> ELSE <<d[1], d[2] + 1, 1>>
      [] g = "Year"  -> <<d[1] + 1, 1, 1>>

\* The calendar units the requested days fall in.
UnitsTouched ==
    {UnitOf(FromOrdinal(o), GROUP_BY) : o \in ToOrdinal(START_DATE)..ToOrdinal(END_DATE)}

\* C2: for Day, Month and Year and start <= end, every sub-range lies inside
\* one calendar unit, no two in the same one, there are as many sub-ranges
\* as calendar units touched, every sub-range but the first and the last is
\* a whole unit, and the first and the last are clipped at the start date
\* and at end date + 1 day only.
C2_OnePerCalendarUnit ==
    (Planned /\ program = "app" /\ GROUP_BY # "None") =>
        LET n == Len(date_ranges)
            g == GROUP_BY
        IN  /\ n = Cardinality(UnitsTouched)
            /\ \A k \in 1..n :
                /\ NotAfter(UnitFirst(date_ranges[k][1], g), date_ranges[k][1])
                /\ NotAfter(date_ranges[k][2], UnitAfter(date_ranges[k][1], g))
            /\ \A j \in 1..n : \A k \in 1..n :
                j # k => UnitOf(date_ranges[j][1], g) # UnitOf(date_ranges[k][1], g)
            /\ \A k \in 2..n : date_ranges[k][1] = UnitFirst(date_ranges[k][1], g)
            /\ \A k \in 1..(n - 1) : date_ranges[k][2] = UnitAfter(date_ranges[k][1], g)
            /\ date_ranges[1][1] = START_DATE
            /\ ToOrdinal(date_ranges[n][2]) = EndExclusive

\* A month plan holding the 29-day February of 2024, the 28-day February of
\* 2025 and the December-to-January step as whole sub-ranges.
C2_Witness ==
    /\ Planned
    /\ program = "app"
    /\ GROUP_BY = "Month"
    /\ START_DATE[3] # 1
    /\ \E i \in 2..(Len(date_ranges) - 1), j \in 2..(Len(date_ranges) - 1),
          k \in 2..(Len(date_ranges) - 1) :
        /\ date_ranges[i] = << <<2024, 2, 1>>, <<2024, 3, 1>> >>
        /\ date_ranges[j] = << <<2025, 2, 1>>, <<2025, 3, 1>> >>
        /\ date_ranges[k] = << <<2024, 12, 1>>, <<2025, 1, 1>> >>

----------------------------------------------------------------------------
(* Properties of a run                                                     *)

\* The handler of src/app.py opened the connection and planned its units.
AppRun == program = "app" /\ conn # "none"

\* parallel_fetch was called and returned: no exception left it (an exception
\* raised later, by the ZIP step or the finally block, finds every future
\* consumed).
Returned ==
    /\ AppRun
    /\ GROUP_BY # "None"
    /\ \/ pc \in {"bundle", "finally"}
       \/ pc = "unwinding" /\ Len(progress) = Len(date_ranges)
       \/ /\ pc = "end"
          /\ conn = "closed"
          /\ raised => Len(progress) = Len(date_ranges)

\* The units whose fetch_and_write_data call returned CSV content.
Succeeded == {i \in Units : Truthy(result[i])}

\* The name the naming rule gives the artifact of sub-range i.
RuleName(i) ==
    LET d == date_ranges[i][1]
    IN  CASE GROUP_BY = "None"  -> "exported_data_full.csv"
          [] GROUP_BY = "Day"   ->
                "exported_data_" \o ToString(d[1]) \o "_" \o Pad2(d[2]) \o "_"
                    \o Pad2(d[3]) \o ".csv"
          [] GROUP_BY = "Month" ->
                "exported_data_" \o ToString(d[1]) \o "_" \o Pad2(d[2]) \o ".csv"
          [] GROUP_BY = "Year"  -> "exported_data_" \o ToString(d[1]) \o ".csv"

\* C3 as stated: parallel_fetch returns one outcome per sub-range, failed
\* units included.
C3_AsStated == Returned => Len(memory_files) = Len(date_ranges)

\* C4: in a run of the handler every submitted unit is executed whatever the
\* others do: once the pool is left, each ran cur.execute at most once, each
\* unit the warehouse does not fail ran it exactly once and returned its
\* content, each unit it fails returned (None, None); and no step of a unit
\* makes the run raise.
C4_FailureIsolation ==
    /\ [](AppRun /\ pc \in {"bundle", "finally", "unwinding", "end"} /\ Done # {} =>
            \A i \in Units :
                /\ unit[i] = "done"
                /\ execCount[i] <= 1
                /\ i \notin failing =>
                    /\ execCount[i] = 1
                    /\ result[i] = FetchResult(date_ranges[i][1], date_ranges[i][2])
                /\ i \in failing => result[i] = NoneResult)
    /\ [][(program = "app" /\ unit # <<>> /\ unit' # unit) =>
            (raised' = raised /\ pc' = pc)]_vars

\* A run that ended without raising, of five units of which the first failed.
C4_Witness ==
    /\ AppRun
    /\ pc = "end"
    /\ ~raised
    /\ Len(date_ranges) > MaxWorkers
    /\ 1 \in failing
    /\ Cardinality(failing) = 1
    /\ Len(memory_files) = Len(date_ranges) - 1

\* C5: the progress reports are 1 of N, 2 of N, ... in this order, one per
\* iteration of the loop that ran to its end, whether its unit succeeded or
\* failed: while the loop runs there are as many reports as consumed
\* futures, all N with N of N the last when parallel_fetch returns, and one
\* less when an exception left the loop in the middle of an iteration.
C5_ProgressPerUnit ==
    (AppRun /\ GROUP_BY # "None") =>
        /\ \A k \in 1..Len(progress) : progress[k] = <<k, Len(date_ranges)>>
        /\ pc = "collecting" => Len(progress) = Cardinality(collected)
        /\ pc = "exiting" => Len(progress) = Cardinality(collected) - 1
        /\ pc \in {"bundle", "finally"} =>
            /\ collected = Units
            /\ Len(progress) = Len(date_ranges)

\* A run of three or more units of which the first failed, the file of the
\* last submitted one being the first one held.
C5_Witness ==
    /\ Returned
    /\ Len(date_ranges) >= 3
    /\ Len(progress) = Len(date_ranges)
    /\ failing = {1}
    /\ memory_files[1][1] = RuleName(Len(date_ranges))

\* C6 as stated: at most one unit at a time is inside cur.execute and
\* cur.fetchall.
C6_AsStated == Cardinality(Running) <= 1

\* C6: nothing serializes the units on the shared connection; the number of
\* units inside cur.execute and cur.fetchall at the same time is bounded by
\* the pool size (4) only.
C6_AtMostPoolSize == Cardinality(Running) <= MaxWorkers

\* Four units are inside execute and fetch at once while a fifth is queued.
C6_Witness ==
    /\ program = "app"
    /\ Cardinality(Running) = MaxWorkers
    /\ Queued # {}

\* C7 as stated: with the end date before the start date no connection is
\* opened, no query is submitted and no artifact or archive is produced.
C7_AsStated ==
    (program = "app" /\ Before(END_DATE, START_DATE)) =>
        /\ conn = "none"
        /\ \A i \in Units : execCount[i] = 0
        /\ memory_files = <<>>
        /\ ~archive.built

\* C8: the ZIP holds exactly the files of the units that succeeded, one entry
\* each with the unit's CSV content, and none for a failed unit; no ZIP is
\* built when no unit succeeded.
C8_ArchiveOfSuccesses ==
    (AppRun /\ pc \in {"finally", "end"} /\ ~raised) =>
        IF Succeeded = {}
        THEN archive = NoArchive
        ELSE /\ archive.built
             /\ Len(archive.entries) = Cardinality(Succeeded)
             /\ \A i \in Succeeded :
                 Cardinality({k \in 1..Len(archive.entries) :
                     archive.entries[k] = <<RuleName(i), result[i].csv>>}) = 1
             /\ \A i \in Units \ Succeeded : \A k \in 1..Len(archive.entries) :
                 archive.entries[k][1] # RuleName(i)

\* Three day-units, one of which failed: the ZIP has two entries.
C8_Witness ==
    /\ AppRun
    /\ pc = "end"
    /\ GROUP_BY = "Day"
    /\ Len(date_ranges) = 3
    /\ Cardinality(failing) = 1
    /\ archive.built
    /\ Len(archive.entries) = 2

\* A run in which every unit failed: no ZIP.
C8_NoArchiveWitness ==
    /\ AppRun
    /\ pc = "end"
    /\ ~raised
    /\ Len(date_ranges) >= 2
    /\ failing = Units
    /\ archive = NoArchive

\* C9: at every moment of a run of the handler the files held carry pairwise
\* different names, and each is the file of one consumed, successful unit,
\* named by the rule from the start of that unit's own sub-range.
C9_NamesUniqueByRange ==
    program = "app" =>
        /\ \A j \in 1..Len(memory_files) : \A k \in (j + 1)..Len(memory_files) :
            memory_files[j][1] # memory_files[k][1]
        /\ \A k \in 1..Len(memory_files) :
            \E i \in collected \cap Succeeded :
                /\ memory_files[k][2] = result[i].csv
                /\ memory_files[k][1] = RuleName(i)

\* Day units consumed out of order: the first file is the last unit's.
C9_Witness ==
    /\ program = "app"
    /\ GROUP_BY = "Day"
    /\ Len(memory_files) >= 3
    /\ memory_files[1][1] = RuleName(Len(date_ranges))
    /\ memory_files[Len(memory_files)][1] = RuleName(1)

\* C10 as stated: the connection, once opened, is closed exactly once on
\* every path of the run: close() is called at most once, the connection is
\* closed when the run is over, and it is not closed while a unit is inside a
\* query or while units that were started are not all over.
C10_AsStated ==
    /\ closeCount <= 1
    /\ (closeCount = 1) = (conn = "closed")
    /\ pc = "end" => conn # "open"
    /\ conn = "closed" =>
        /\ Running = {}
        /\ (program = "app" /\ Done # {}) => Units = Done
    /\ \A i \in Units : unit[i] = "executing" => conn = "open"

====
